---- MODULE Spec2Model ----
(***************************************************************************)
(* Model of ns-3's attribute-accessor-helper.h: AccessorHelper<T,U>::Set   *)
(* and ::Get, the five local accessor classes built by                     *)
(* DoMakeAccessorHelperOne / DoMakeAccessorHelperTwo, and the overload     *)
(* resolution done by MakeAccessorHelper.                                  *)
(*                                                                         *)
(* One accessor is constructed from a binding descriptor (one or two       *)
(* member references); callers then invoke Set / Get / HasGetter /         *)
(* HasSetter on it with arbitrary objects and attribute values.            *)
(***************************************************************************)
EXTENDS Integers, Sequences, FiniteSets

VARIABLES
    pc,     \* "setup" before MakeAccessorHelper, "bound" once an accessor
            \* exists, "illformed" when no overload yields a valid accessor
    desc,   \* the references handed to MakeAccessorHelper, in argument order
    acc,    \* the accessor MakeAccessorHelper (desc) returned
    twin,   \* the accessor MakeAccessorHelper returns for desc reversed
    objs,   \* the ObjectBase instances: id -> [class, m_x]
    last,   \* record of the most recent call on the accessor
    prev    \* the call before it, when that was a Set of a boxed U on a T

vars == <<pc, desc, acc, twin, objs, last, prev>>

-----------------------------------------------------------------------------
(* Bounds of the model. *)

\* number of objects of class T (ids 1..NumT); id 0 is of an unrelated class
NumT == 2
\* the data member's type U holds 0..MaxField
MaxField == 2
\* an attribute value of type V holds 0..MaxPayload; payloads above
\* MaxField do not convert to U
MaxPayload == MaxField + 1
\* the validating setters of class T accept 0..SetterLimit only
SetterLimit == MaxField - 1

FieldDomain == 0..MaxField
NoValue == 0 - 1

ObjIds == 0..NumT

\* The AttributeValue instances a caller can pass: the specific type V the
\* accessor was made for, or some other AttributeValue subclass.
Values ==
    [type : {"V"}, m_value : 0..MaxPayload]
        \cup {[type |-> "OtherValue", m_value |-> 0]}

-----------------------------------------------------------------------------
(* The member references a caller can hand to MakeAccessorHelper, by the   *)
(* signature shape overload resolution sees, and the member they name.     *)

VoidSetters == {"SetX", "SetClamped"}
BoolSetters == {"TrySetX", "TrySetChecked", "TrySetPartial"}

\* U T::*memberVariable
MemberVariableRef == [shape |-> "memberVariable", fn |-> "m_x"]
\* U (T::*getter)(void) const
GetterRef == [shape |-> "getter", fn |-> "GetX"]
\* void (T::*setter)(U)
VoidSetterRefs == [shape : {"voidSetter"}, fn : VoidSetters]
\* bool (T::*setter)(U)
BoolSetterRefs == [shape : {"boolSetter"}, fn : BoolSetters]

References ==
    {MemberVariableRef, GetterRef} \cup VoidSetterRefs \cup BoolSetterRefs

-----------------------------------------------------------------------------
(* The members of class T that the references name.  The setters stand for *)
(* the kinds of set method the header documents: one that installs the     *)
(* value, one that cannot report failure and clamps, and bool-returning    *)
(* ones that accept, refuse, or refuse after a partial update.             *)

\* (object->*m_setter)(tmp): the object after the call and what it returned
\* (TRUE stands for the absent result of a void setter)
InvokeSetter(fn, obj, tmp) ==
    CASE fn = "SetX" ->
            [obj |-> [obj EXCEPT !.m_x = tmp], ret |-> TRUE]
      [] fn = "SetClamped" ->
            [obj |-> [obj EXCEPT !.m_x =
                        IF tmp > SetterLimit THEN SetterLimit ELSE tmp],
             ret |-> TRUE]
      [] fn = "TrySetX" ->
            [obj |-> [obj EXCEPT !.m_x = tmp], ret |-> TRUE]
      [] fn = "TrySetChecked" ->
            IF tmp > SetterLimit
            THEN [obj |-> obj, ret |-> FALSE]
            ELSE [obj |-> [obj EXCEPT !.m_x = tmp], ret |-> TRUE]
      [] fn = "TrySetPartial" ->
            IF tmp > SetterLimit
            THEN [obj |-> [obj EXCEPT !.m_x = SetterLimit], ret |-> FALSE]
            ELSE [obj |-> [obj EXCEPT !.m_x = tmp], ret |-> TRUE]

\* (object->*m_getter)(): a const functor returning the member
InvokeGetter(fn, obj) == obj.m_x

-----------------------------------------------------------------------------
(* The AttributeValue collaborator.                                        *)

\* bool V::GetAccessor (U &tmp) const: fails when the payload is not a U
GetAccessor(v) ==
    IF v.m_value \in FieldDomain
    THEN [ok |-> TRUE, tmp |-> v.m_value]
    ELSE [ok |-> FALSE, tmp |-> NoValue]

\* void V::Set (const U &x)
ValueSet(v, x) == [v EXCEPT !.m_value = x]

-----------------------------------------------------------------------------
(* The accessor classes.  An accessor is its class and captured members.   *)

NoMember == "none"

MemberVariable(memberVariable) ==
    [variant |-> "MemberVariable", m_memberVariable |-> memberVariable,
     m_setter |-> NoMember, m_getter |-> NoMember]

GetterMethod(getter) ==
    [variant |-> "Getter", m_memberVariable |-> NoMember,
     m_setter |-> NoMember, m_getter |-> getter]

VoidSetterMethod(setter) ==
    [variant |-> "VoidSetter", m_memberVariable |-> NoMember,
     m_setter |-> setter, m_getter |-> NoMember]

VoidSetterGetterMethod(setter, getter) ==
    [variant |-> "VoidSetterGetter", m_memberVariable |-> NoMember,
     m_setter |-> setter, m_getter |-> getter]

BoolSetterGetterMethod(setter, getter) ==
    [variant |-> "BoolSetterGetter", m_memberVariable |-> NoMember,
     m_setter |-> setter, m_getter |-> getter]

\* what a call that does not compile into an accessor leaves
IllFormed ==
    [variant |-> "IllFormed", m_memberVariable |-> NoMember,
     m_setter |-> NoMember, m_getter |-> NoMember]

\* result of a DoSet: return value, the object afterwards, and what was run
SetResult(ret, obj, convCalls, setterCalls, setterArg) ==
    [ret |-> ret, obj |-> obj, convCalls |-> convCalls,
     setterCalls |-> setterCalls, setterArg |-> setterArg]

\* result of a DoGet: return value, the value afterwards, and what was run
GetResult(ret, v, getterCalls) ==
    [ret |-> ret, v |-> v, getterCalls |-> getterCalls]

\* variant of MemberVariable::DoSet that reports success without the
\* assignment to the member
MemberVariable_DoSet_NoAssign(a, object, v) ==
    LET c == GetAccessor(v) IN
    IF ~c.ok
    THEN SetResult(FALSE, object, 1, 0, NoValue)
    ELSE SetResult(TRUE, object, 1, 0, NoValue)

\* MemberVariable::DoSet
MemberVariable_DoSet(a, object, v) ==
    LET c == GetAccessor(v) IN
    IF ~c.ok
    THEN SetResult(FALSE, object, 1, 0, NoValue)
    ELSE SetResult(TRUE, [object EXCEPT !.m_x = c.tmp], 1, 0, NoValue)

\* MemberVariable::DoGet
MemberVariable_DoGet(a, object, v) ==
    GetResult(TRUE, ValueSet(v, object.m_x), 0)

\* MemberMethod::DoSet of the getter-only accessor
Getter_DoSet(a, object, v) ==
    SetResult(FALSE, object, 0, 0, NoValue)

\* variant of the getter-only DoGet that calls the getter and drops its
\* result
Getter_DoGet_NoStore(a, object, v) ==
    GetResult(TRUE, v, 1)

\* MemberMethod::DoGet of the getter-only accessor
Getter_DoGet(a, object, v) ==
    GetResult(TRUE, ValueSet(v, InvokeGetter(a.m_getter, object)), 1)

\* variant of the void-setter-only DoSet that converts and reports success
\* without calling the setter
VoidSetter_DoSet_SkipsSetter(a, object, v) ==
    LET c == GetAccessor(v) IN
    IF ~c.ok
    THEN SetResult(FALSE, object, 1, 0, NoValue)
    ELSE SetResult(TRUE, object, 1, 0, NoValue)

\* MemberMethod::DoSet of the void-setter-only accessor
VoidSetter_DoSet(a, object, v) ==
    LET c == GetAccessor(v) IN
    IF ~c.ok
    THEN SetResult(FALSE, object, 1, 0, NoValue)
    ELSE SetResult(TRUE, InvokeSetter(a.m_setter, object, c.tmp).obj,
                   1, 1, c.tmp)

\* MemberMethod::DoGet of the void-setter-only accessor
VoidSetter_DoGet(a, object, v) ==
    GetResult(FALSE, v, 0)

\* MemberMethod::DoSet of the void setter + getter accessor
VoidSetterGetter_DoSet(a, object, v) ==
    LET c == GetAccessor(v) IN
    IF ~c.ok
    THEN SetResult(FALSE, object, 1, 0, NoValue)
    ELSE SetResult(TRUE, InvokeSetter(a.m_setter, object, c.tmp).obj,
                   1, 1, c.tmp)

\* MemberMethod::DoGet of the void setter + getter accessor
VoidSetterGetter_DoGet(a, object, v) ==
    GetResult(TRUE, ValueSet(v, InvokeGetter(a.m_getter, object)), 1)

\* variant of the bool setter + getter DoSet without the test of ok: the
\* setter runs on whatever tmp holds
BoolSetterGetter_DoSet_IgnoresOk(a, object, v) ==
    LET c == GetAccessor(v)
        s == InvokeSetter(a.m_setter, object, c.tmp)
    IN SetResult(s.ret, s.obj, 1, 1, c.tmp)

\* variant of the bool setter + getter DoSet that drops the setter's
\* result and returns true, as the void one does
BoolSetterGetter_DoSet_ReturnsTrue(a, object, v) ==
    LET c == GetAccessor(v) IN
    IF ~c.ok
    THEN SetResult(FALSE, object, 1, 0, NoValue)
    ELSE LET s == InvokeSetter(a.m_setter, object, c.tmp) IN
         SetResult(TRUE, s.obj, 1, 1, c.tmp)

\* MemberMethod::DoSet of the bool setter + getter accessor
BoolSetterGetter_DoSet(a, object, v) ==
    LET c == GetAccessor(v) IN
    IF ~c.ok
    THEN SetResult(FALSE, object, 1, 0, NoValue)
    ELSE LET s == InvokeSetter(a.m_setter, object, c.tmp) IN
         SetResult(s.ret, s.obj, 1, 1, c.tmp)

\* MemberMethod::DoGet of the bool setter + getter accessor
BoolSetterGetter_DoGet(a, object, v) ==
    GetResult(TRUE, ValueSet(v, InvokeGetter(a.m_getter, object)), 1)

\* virtual dispatch of AccessorHelper<T,U>::DoSet
DoSet(a, object, v) ==
    CASE a.variant = "MemberVariable" -> MemberVariable_DoSet(a, object, v)
      [] a.variant = "Getter" -> Getter_DoSet(a, object, v)
      [] a.variant = "VoidSetter" -> VoidSetter_DoSet(a, object, v)
      [] a.variant = "VoidSetterGetter" -> VoidSetterGetter_DoSet(a, object, v)
      [] a.variant = "BoolSetterGetter" -> BoolSetterGetter_DoSet(a, object, v)

\* virtual dispatch of AccessorHelper<T,U>::DoGet
DoGet(a, object, v) ==
    CASE a.variant = "MemberVariable" -> MemberVariable_DoGet(a, object, v)
      [] a.variant = "Getter" -> Getter_DoGet(a, object, v)
      [] a.variant = "VoidSetter" -> VoidSetter_DoGet(a, object, v)
      [] a.variant = "VoidSetterGetter" -> VoidSetterGetter_DoGet(a, object, v)
      [] a.variant = "BoolSetterGetter" -> BoolSetterGetter_DoGet(a, object, v)

\* virtual bool HasGetter (void) const
HasGetter(a) ==
    CASE a.variant = "MemberVariable" -> TRUE
      [] a.variant = "Getter" -> TRUE
      [] a.variant = "VoidSetter" -> FALSE
      [] a.variant = "VoidSetterGetter" -> TRUE
      [] a.variant = "BoolSetterGetter" -> TRUE

\* variant of HasSetter in which the getter-only class answers true too
HasSetter_AlwaysTrue(a) == TRUE

\* virtual bool HasSetter (void) const
HasSetter(a) ==
    CASE a.variant = "MemberVariable" -> TRUE
      [] a.variant = "Getter" -> FALSE
      [] a.variant = "VoidSetter" -> TRUE
      [] a.variant = "VoidSetterGetter" -> TRUE
      [] a.variant = "BoolSetterGetter" -> TRUE

-----------------------------------------------------------------------------
(* AccessorHelper<T,U>::Set and ::Get.  The outcome of a call is the       *)
(* return value, every object and the passed value afterwards, and how     *)
(* often the conversion, the setter and the getter ran.                    *)

Outcome(ret, os, v, convCalls, setterCalls, setterArg, getterCalls) ==
    [ret |-> ret, objs |-> os, val |-> v, convCalls |-> convCalls,
     setterCalls |-> setterCalls, setterArg |-> setterArg,
     getterCalls |-> getterCalls]

\* dynamic_cast<const U *> (&val)
CastValue(val) == val.type = "V"

\* dynamic_cast<T *> (object)
CastObject(obj) == obj.class = "T"

\* variant of Set without the test of the object cast
Set_NoObjectCheck(a, os, object, val) ==
    IF ~CastValue(val)
    THEN Outcome(FALSE, os, val, 0, 0, NoValue, 0)
    ELSE LET r == DoSet(a, os[object], val) IN
         Outcome(r.ret, [os EXCEPT ![object] = r.obj], val,
                 r.convCalls, r.setterCalls, r.setterArg, 0)

\* virtual bool Set (ObjectBase * object, const AttributeValue & val) const
Set(a, os, object, val) ==
    IF ~CastValue(val)
    THEN Outcome(FALSE, os, val, 0, 0, NoValue, 0)
    ELSE IF ~CastObject(os[object])
    THEN Outcome(FALSE, os, val, 0, 0, NoValue, 0)
    ELSE LET r == DoSet(a, os[object], val) IN
         Outcome(r.ret, [os EXCEPT ![object] = r.obj], val,
                 r.convCalls, r.setterCalls, r.setterArg, 0)

\* variant of Get that takes a non-const object and leaves its member
\* cleared once read
Get_ClearsObject(a, os, object, val) ==
    IF ~CastValue(val)
    THEN Outcome(FALSE, os, val, 0, 0, NoValue, 0)
    ELSE IF ~CastObject(os[object])
    THEN Outcome(FALSE, os, val, 0, 0, NoValue, 0)
    ELSE LET r == DoGet(a, os[object], val) IN
         Outcome(r.ret, [os EXCEPT ![object].m_x = 0], r.v,
                 0, 0, NoValue, r.getterCalls)

\* virtual bool Get (const ObjectBase * object, AttributeValue &val) const
Get(a, os, object, val) ==
    IF ~CastValue(val)
    THEN Outcome(FALSE, os, val, 0, 0, NoValue, 0)
    ELSE IF ~CastObject(os[object])
    THEN Outcome(FALSE, os, val, 0, 0, NoValue, 0)
    ELSE LET r == DoGet(a, os[object], val) IN
         Outcome(r.ret, os, r.v, 0, 0, NoValue, r.getterCalls)

-----------------------------------------------------------------------------
(* MakeAccessorHelper: overload resolution over the reference shapes.      *)

\* DoMakeAccessorHelperOne<V> (a1).  A bool (T::*)(U) has no overload of
\* its own; it deduces U T::* with U a function type, whose MemberVariable
\* class does not compile.
DoMakeAccessorHelperOne(a1) ==
    CASE a1.shape = "memberVariable" -> MemberVariable(a1.fn)
      [] a1.shape = "getter" -> GetterMethod(a1.fn)
      [] a1.shape = "voidSetter" -> VoidSetterMethod(a1.fn)
      [] OTHER -> IllFormed

\* variant of DoMakeAccessorHelperTwo whose (getter, bool setter) overload
\* builds the void-setter class, so the setter's result is lost
DoMakeAccessorHelperTwo_BoolAsVoid(a1, a2) ==
    CASE a1.shape = "voidSetter" /\ a2.shape = "getter" ->
            VoidSetterGetterMethod(a1.fn, a2.fn)
      [] a1.shape = "getter" /\ a2.shape = "voidSetter" ->
            VoidSetterGetterMethod(a2.fn, a1.fn)
      [] a1.shape = "boolSetter" /\ a2.shape = "getter" ->
            BoolSetterGetterMethod(a1.fn, a2.fn)
      [] a1.shape = "getter" /\ a2.shape = "boolSetter" ->
            VoidSetterGetterMethod(a2.fn, a1.fn)
      [] OTHER -> IllFormed

\* DoMakeAccessorHelperTwo<V> (a1, a2): the (setter, getter) overloads build
\* the accessor, the (getter, setter) overloads forward with the arguments
\* swapped; no other pair of shapes has an overload.
DoMakeAccessorHelperTwo(a1, a2) ==
    CASE a1.shape = "voidSetter" /\ a2.shape = "getter" ->
            VoidSetterGetterMethod(a1.fn, a2.fn)
      [] a1.shape = "getter" /\ a2.shape = "voidSetter" ->
            VoidSetterGetterMethod(a2.fn, a1.fn)
      [] a1.shape = "boolSetter" /\ a2.shape = "getter" ->
            BoolSetterGetterMethod(a1.fn, a2.fn)
      [] a1.shape = "getter" /\ a2.shape = "boolSetter" ->
            BoolSetterGetterMethod(a2.fn, a1.fn)
      [] OTHER -> IllFormed

\* MakeAccessorHelper<V> (a1) and MakeAccessorHelper<V> (a1, a2)
MakeAccessorHelper(d) ==
    IF Len(d) = 1
    THEN DoMakeAccessorHelperOne(d[1])
    ELSE DoMakeAccessorHelperTwo(d[1], d[2])

Reverse(d) == [i \in 1..Len(d) |-> d[Len(d) + 1 - i]]

-----------------------------------------------------------------------------
(* The state machine.                                                      *)

NoCall ==
    [op |-> "none", object |-> 0, val |-> [type |-> "OtherValue", m_value |-> 0],
     ret |-> FALSE]

\* the record kept of a call: its inputs, the state it ran in, its outcome
\* and the outcome the twin accessor gives for the same call
CallRecord(op, object, val, pre, out, twinOut) ==
    [op |-> op, object |-> object, val |-> val, objsPre |-> pre,
     out |-> out, twinOut |-> twinOut]

NoOutcome(os) ==
    Outcome(FALSE, os, NoCall.val, 0, 0, NoValue, 0)

\* what is remembered of a call once the next one is made: a Set of a
\* value of the member's type, boxed in a V, on an object of class T, with
\* its arguments and result; nothing of the other calls
Brief(c) ==
    IF /\ c.op = "Set"
       /\ c.objsPre[c.object].class = "T"
       /\ c.val.type = "V"
       /\ c.val.m_value \in FieldDomain
    THEN [op |-> c.op, object |-> c.object, val |-> c.val, ret |-> c.out.ret]
    ELSE NoCall

\* the objects the callers hold: object 0 of an unrelated class, objects
\* 1..NumT of class T with any member values
InitObjs ==
    {os \in [ObjIds -> [class : {"T", "Other"}, m_x : FieldDomain]] :
        /\ os[0] = [class |-> "Other", m_x |-> 0]
        /\ \A o \in 1..NumT : os[o].class = "T"}

Init ==
    /\ pc = "setup"
    /\ desc = <<>>
    /\ acc = IllFormed
    /\ twin = IllFormed
    /\ objs \in InitObjs
    /\ last = CallRecord("none", 0, NoCall.val, objs,
                         NoOutcome(objs), NoOutcome(objs))
    /\ prev = NoCall

\* where construction leaves the program
AfterMake(a) == IF a.variant = "IllFormed" THEN "illformed" ELSE "bound"

\* the schema-construction step with one reference: MakeAccessorHelper<V> (a1)
MakeOne ==
    \E a1 \in References :
        /\ pc = "setup"
        /\ desc' = <<a1>>
        /\ acc' = MakeAccessorHelper(<<a1>>)
        /\ twin' = MakeAccessorHelper(Reverse(<<a1>>))
        /\ pc' = AfterMake(MakeAccessorHelper(<<a1>>))
        /\ UNCHANGED <<objs, last, prev>>

\* the schema-construction step with two: MakeAccessorHelper<V> (a1, a2)
MakeTwo ==
    \E a1 \in References, a2 \in References :
        /\ pc = "setup"
        /\ desc' = <<a1, a2>>
        /\ acc' = MakeAccessorHelper(<<a1, a2>>)
        /\ twin' = MakeAccessorHelper(Reverse(<<a1, a2>>))
        /\ pc' = AfterMake(MakeAccessorHelper(<<a1, a2>>))
        /\ UNCHANGED <<objs, last, prev>>

\* accessor->Set (object, val)
CallSet(object, val) ==
    /\ pc = "bound"
    /\ LET out == Set(acc, objs, object, val) IN
       /\ objs' = out.objs
       /\ last' = CallRecord("Set", object, val, objs, out,
                             IF twin.variant = "IllFormed" THEN out
                             ELSE Set(twin, objs, object, val))
    /\ prev' = Brief(last)
    /\ UNCHANGED <<pc, desc, acc, twin>>

\* accessor->Get (object, val)
CallGet(object, val) ==
    /\ pc = "bound"
    /\ LET out == Get(acc, objs, object, val) IN
       /\ objs' = out.objs
       /\ last' = CallRecord("Get", object, val, objs, out,
                             IF twin.variant = "IllFormed" THEN out
                             ELSE Get(twin, objs, object, val))
    /\ prev' = Brief(last)
    /\ UNCHANGED <<pc, desc, acc, twin>>

\* accessor->HasGetter ()
CallHasGetter ==
    /\ pc = "bound"
    /\ last' = CallRecord("HasGetter", 0, NoCall.val, objs,
                          [NoOutcome(objs) EXCEPT !.ret = HasGetter(acc)],
                          [NoOutcome(objs) EXCEPT !.ret =
                              IF twin.variant = "IllFormed" THEN HasGetter(acc)
                              ELSE HasGetter(twin)])
    /\ prev' = Brief(last)
    /\ UNCHANGED <<pc, desc, acc, twin, objs>>

\* accessor->HasSetter ()
CallHasSetter ==
    /\ pc = "bound"
    /\ last' = CallRecord("HasSetter", 0, NoCall.val, objs,
                          [NoOutcome(objs) EXCEPT !.ret = HasSetter(acc)],
                          [NoOutcome(objs) EXCEPT !.ret =
                              IF twin.variant = "IllFormed" THEN HasSetter(acc)
                              ELSE HasSetter(twin)])
    /\ prev' = Brief(last)
    /\ UNCHANGED <<pc, desc, acc, twin, objs>>

DoCallSet == \E object \in ObjIds, val \in Values : CallSet(object, val)

DoCallGet == \E object \in ObjIds, val \in Values : CallGet(object, val)

Next ==
    \/ MakeOne
    \/ MakeTwo
    \/ DoCallSet
    \/ DoCallGet
    \/ CallHasGetter
    \/ CallHasSetter

Spec == Init /\ [][Next]_vars

-----------------------------------------------------------------------------
(* Vocabulary of the properties.                                           *)

\* the binding shape of a descriptor: one data member, one getter, one
\* setter, or a getter and a setter
Shape(d) ==
    IF Len(d) = 2 THEN "GetSet"
    ELSE CASE d[1].shape = "memberVariable" -> "Field"
           [] d[1].shape = "getter" -> "GetOnly"
           [] OTHER -> "SetOnly"

ExpectedHasGetter(d) == Shape(d) \in {"Field", "GetOnly", "GetSet"}
ExpectedHasSetter(d) == Shape(d) \in {"Field", "SetOnly", "GetSet"}

Bound == pc = "bound"
IsCall == last.op \in {"Set", "Get"}
\* both dynamic casts of the last call succeed
Narrowed == last.val.type = "V" /\ last.objsPre[last.object].class = "T"
\* the value passed to the last call converts to the member's type
Converts == last.val.m_value \in FieldDomain
\* the object the last call was given, before and after it
ObjBefore == last.objsPre[last.object]
ObjAfter == objs[last.object]
\* the setter, run on the given object with the given value, accepts the
\* value and installs exactly it
Installs(fn, x) ==
    \A o \in 1..NumT :
        LET s == InvokeSetter(fn, last.objsPre[o], x) IN
        s.ret /\ s.obj.m_x = x

-----------------------------------------------------------------------------
\* C1: at every point of every sequence of calls, HasGetter () and
\* HasSetter () of a constructed accessor are what the shape of its binding
\* says (Field: true, true; Get-only: true, false; Set-only: false, true;
\* Get+Set: true, true), a call observes exactly these, and no step changes
\* them.
C1_FlagsMatchShape ==
    [][Bound =>
        /\ HasGetter(acc) = ExpectedHasGetter(desc)
        /\ HasSetter(acc) = ExpectedHasSetter(desc)
        /\ HasGetter(acc') = HasGetter(acc)
        /\ HasSetter(acc') = HasSetter(acc)
        /\ last'.op = "HasGetter" => last'.out.ret = ExpectedHasGetter(desc)
        /\ last'.op = "HasSetter" => last'.out.ret = ExpectedHasSetter(desc)
      ]_vars

\* a Get-only accessor answers HasSetter () with false right after a Set
C1_Witness ==
    /\ Bound
    /\ Shape(desc) = "GetOnly"
    /\ last.op = "HasSetter"
    /\ ~last.out.ret
    /\ prev.op = "Set"

-----------------------------------------------------------------------------
\* a Get directly follows a Set of box (v) on the same object of class T,
\* with a value container of the right type
SetThenGet ==
    /\ Bound
    /\ last.op = "Get"
    /\ prev.op = "Set"
    /\ last.object = prev.object
    /\ last.val.type = "V"

\* C2 as claimed: for a Field or Get+Set accessor, Set (obj, box (v))
\* followed by Get (obj, out) returns true twice and leaves v in out.
C2_RoundTripAsClaimed ==
    (SetThenGet /\ Shape(desc) \in {"Field", "GetSet"}) =>
        /\ prev.ret
        /\ last.out.ret
        /\ last.out.val.m_value = prev.val.m_value

\* C2 amended: the round trip holds for a Field accessor, and for a Get+Set
\* accessor when the bound setter accepts v and installs exactly v; for any
\* Field or Get+Set accessor the Get returns true and leaves in out what
\* the member holds after the Set.
C2_RoundTrip ==
    (SetThenGet /\ Shape(desc) \in {"Field", "GetSet"}) =>
        /\ last.out.ret
        /\ last.out.val.m_value = ObjBefore.m_x
        /\ (Shape(desc) = "Field" \/ Installs(acc.m_setter, prev.val.m_value)) =>
              /\ prev.ret
              /\ last.out.val.m_value = prev.val.m_value

\* a Get+Set accessor round-trips a value that the out container did not
\* hold before
C2_Witness ==
    /\ SetThenGet
    /\ Shape(desc) = "GetSet"
    /\ prev.ret
    /\ last.out.ret
    /\ last.out.val.m_value = prev.val.m_value
    /\ last.val.m_value # prev.val.m_value

-----------------------------------------------------------------------------
\* C3: a Set or Get whose object is not of class T or whose value is not a
\* V returns false, leaves every object and the value as they were, and
\* runs neither the conversion nor the setter nor the getter.
C3_NarrowingFailure ==
    (Bound /\ IsCall /\ ~Narrowed) =>
        /\ ~last.out.ret
        /\ objs = last.objsPre
        /\ last.out.val = last.val
        /\ last.out.convCalls = 0
        /\ last.out.setterCalls = 0
        /\ last.out.getterCalls = 0

\* a Set with a convertible V on an object of the unrelated class
C3_Witness ==
    /\ Bound
    /\ last.op = "Set"
    /\ last.val.type = "V"
    /\ Converts
    /\ ObjBefore.class = "Other"
    /\ HasSetter(acc)
    /\ ~last.out.ret

-----------------------------------------------------------------------------
\* C4: on an accessor that can set, a Set whose casts succeed but whose
\* value does not convert returns false without assigning the member or
\* invoking the setter: every object is as it was.
C4_ConversionFailure ==
    (Bound /\ last.op = "Set" /\ Narrowed /\ ~Converts
           /\ Shape(desc) \in {"Field", "SetOnly", "GetSet"}) =>
        /\ ~last.out.ret
        /\ last.out.convCalls = 1
        /\ last.out.setterCalls = 0
        /\ objs = last.objsPre

\* the conversion fails under a bool setter + getter accessor
C4_Witness ==
    /\ Bound
    /\ last.op = "Set"
    /\ Narrowed
    /\ ~Converts
    /\ acc.variant = "BoolSetterGetter"
    /\ ~last.out.ret

-----------------------------------------------------------------------------
\* C5: on an accessor made from one getter, Set returns false whatever it
\* is given and changes no object; Get with an object of class T and a V
\* returns true and leaves the getter's current result in the value.
C5_GetOnly ==
    (Bound /\ Shape(desc) = "GetOnly") =>
        /\ last.op = "Set" =>
              /\ ~last.out.ret
              /\ objs = last.objsPre
              /\ last.out.setterCalls = 0
        /\ (last.op = "Get" /\ Narrowed) =>
              /\ last.out.ret
              /\ last.out.getterCalls = 1
              /\ last.out.val.m_value = InvokeGetter(acc.m_getter, ObjBefore)
              /\ last.out.val.m_value = ObjBefore.m_x

\* a Get on a Get-only accessor that replaces what the value held, after a
\* well-formed Set was refused
C5_Witness ==
    /\ Bound
    /\ Shape(desc) = "GetOnly"
    /\ last.op = "Get"
    /\ Narrowed
    /\ last.out.ret
    /\ last.out.val.m_value # last.val.m_value
    /\ prev.op = "Set"
    /\ ~prev.ret

-----------------------------------------------------------------------------
\* C6 as claimed: MakeAccessorHelper given one bool-returning setter
\* produces a Set-only accessor, with HasGetter false and HasSetter true.
C6_BoolSetterOnlyAsClaimed ==
    (pc # "setup" /\ Len(desc) = 1 /\ desc[1].shape = "boolSetter") =>
        /\ pc = "bound"
        /\ acc.variant # "IllFormed"
        /\ ~HasGetter(acc)
        /\ HasSetter(acc)

-----------------------------------------------------------------------------
\* C7: an accessor made from two references behaves as the one made from
\* the same references in the other order: each Set, Get, HasGetter and
\* HasSetter, from the same state and with the same arguments, returns the
\* same and leaves the objects and the value the same.
C7_OrderIrrelevant ==
    (Bound /\ Len(desc) = 2) =>
        /\ twin.variant # "IllFormed"
        /\ last.twinOut = last.out

\* getter given first, and the bool setter refuses the value
C7_Witness ==
    /\ Bound
    /\ Len(desc) = 2
    /\ desc[1].shape = "getter"
    /\ desc[2].shape = "boolSetter"
    /\ last.op = "Set"
    /\ last.out.setterCalls = 1
    /\ ~last.out.ret

-----------------------------------------------------------------------------
\* C8: on an accessor made from one void setter, Get returns false and
\* leaves the object and the value as they were; Set returns true exactly
\* when both casts and the conversion succeed, and then the setter has run
\* once, with the converted value, on the given object.
C8_SetOnlyVoid ==
    (Bound /\ acc.variant = "VoidSetter") =>
        /\ last.op = "Get" =>
              /\ ~last.out.ret
              /\ last.out.val = last.val
              /\ objs = last.objsPre
        /\ last.op = "Set" =>
              /\ last.out.ret <=> (Narrowed /\ Converts)
              /\ last.out.ret =>
                    /\ last.out.setterCalls = 1
                    /\ last.out.setterArg = last.val.m_value
                    /\ ObjAfter =
                         InvokeSetter(acc.m_setter, ObjBefore,
                                      last.val.m_value).obj
              /\ ~last.out.ret =>
                    /\ last.out.setterCalls = 0
                    /\ objs = last.objsPre

\* a Set that succeeds through a clamping void setter
C8_Witness ==
    /\ Bound
    /\ acc.variant = "VoidSetter"
    /\ last.op = "Set"
    /\ last.out.ret
    /\ last.out.setterArg = MaxField
    /\ ObjAfter.m_x = SetterLimit
    /\ ObjBefore.m_x # SetterLimit

-----------------------------------------------------------------------------
\* C9: on a Get+Set accessor, once casts and conversion succeed, Set runs
\* the setter once with the converted value; it returns true for a void
\* setter and the setter's own boolean for a bool setter, and the object
\* is left as the setter left it.
C9_GetSetSet ==
    (Bound /\ Shape(desc) = "GetSet" /\ last.op = "Set"
           /\ Narrowed /\ Converts) =>
        LET s == InvokeSetter(acc.m_setter, ObjBefore, last.val.m_value) IN
        /\ last.out.convCalls = 1
        /\ last.out.setterCalls = 1
        /\ last.out.setterArg = last.val.m_value
        /\ acc.m_setter \in VoidSetters => last.out.ret
        /\ acc.m_setter \in BoolSetters => (last.out.ret = s.ret)
        /\ ObjAfter = s.obj

\* the bool setter refuses the value after a partial update
C9_Witness ==
    /\ Bound
    /\ Shape(desc) = "GetSet"
    /\ last.op = "Set"
    /\ Narrowed
    /\ Converts
    /\ acc.m_setter \in BoolSetters
    /\ ~last.out.ret
    /\ ObjAfter # ObjBefore

-----------------------------------------------------------------------------
\* C10: a Set leaves the value it is given as it was, a Get leaves every
\* object as it was, no call changes an object other than the one it is
\* given, and the accessor still holds the binding it was constructed with.
C10_Frame ==
    Bound =>
        /\ acc = MakeAccessorHelper(desc)
        /\ last.op = "Set" => last.out.val = last.val
        /\ last.op = "Get" => objs = last.objsPre
        /\ \A o \in ObjIds : o # last.object => objs[o] = last.objsPre[o]
        /\ last.out.objs = objs

\* a Set that changes its object while another object of class T holds a
\* different value
C10_Witness ==
    /\ Bound
    /\ last.op = "Set"
    /\ last.out.ret
    /\ ObjAfter # ObjBefore
    /\ \E o \in 1..NumT : o # last.object /\ objs[o].m_x # ObjAfter.m_x

====
